---- MODULE Spec2Model ----
(***************************************************************************)
(* Model of manga-compiler (src/src/main.rs): the naming rule built from   *)
(* the folder name, the classification pass over the directory listing,    *)
(* the completeness validation and the archive assembly.                   *)
(*                                                                         *)
(* A string is a sequence of characters; a character is a one-element      *)
(* string, except the named characters below.                              *)
(***************************************************************************)
EXTENDS Integers, Sequences, FiniteSets, TLC

VARIABLES
    pc,            \* position of main(): see the actions below
    folder_name,   \* input: what folder.file_name().to_str() yields
    listing,       \* input: the items the WalkDir iterator yields, in order
    title,         \* the title once derived
    idx,           \* number of listing items consumed by the for loop
    page_entries,  \* Vec<(u32, PathBuf)>
    noise,         \* Vec<String>
    missing,       \* Vec<u32>
    stderr,        \* lines written to the diagnostic channel
    stdout,        \* lines written to the primary channel
    created,       \* the output file has been created (File::create returned Ok)
    archive,       \* entries started in the zip writer, in order
    finished,      \* zip.finish() returned Ok
    err,           \* the error main() returned, or "none"
    exit_code,     \* process exit status, Running while the process runs
    rx_title,      \* naming-rule check: the title the rule is built from
    rx_fname,      \* naming-rule check: the filename given to the rule
    rx_caps        \* naming-rule check: result of name_rx.captures(fname)

vars == <<pc, folder_name, listing, title, idx, page_entries, noise, missing,
          stderr, stdout, created, archive, finished, err, exit_code,
          rx_title, rx_fname, rx_caps>>

rxVars == <<rx_title, rx_fname, rx_caps>>

\* ------------------------------------------------------------------------
\* Characters
\* ------------------------------------------------------------------------

\* U+0663 ARABIC-INDIC DIGIT THREE: a decimal digit (class Nd) outside ASCII.
ArabicThree == "U+0663"

NewLine == "\n"

BackSlash == "\\"

AsciiDigits == {"0", "1", "2", "3", "4", "5", "6", "7", "8", "9"}

UpperLetters == <<"A", "C", "E", "G", "I", "J", "L", "M", "N", "O", "P", "T", "V", "X">>

LowerLetters == <<"a", "c", "e", "g", "i", "j", "l", "m", "n", "o", "p", "t", "v", "x">>

\* Simple case folding of one character.
Fold(c) ==
    IF \E i \in 1..Len(UpperLetters) : UpperLetters[i] = c
    THEN LowerLetters[CHOOSE i \in 1..Len(UpperLetters) : UpperLetters[i] = c]
    ELSE c

ToUpperChar(c) ==
    IF \E i \in 1..Len(LowerLetters) : LowerLetters[i] = c
    THEN UpperLetters[CHOOSE i \in 1..Len(LowerLetters) : LowerLetters[i] = c]
    ELSE c

FoldStr(s) == [i \in 1..Len(s) |-> Fold(s[i])]

UpperStr(s) == [i \in 1..Len(s) |-> ToUpperChar(s[i])]

\* ------------------------------------------------------------------------
\* The naming rule (main.rs 25-28, 39-40)
\* ------------------------------------------------------------------------

\* The characters regex::escape prefixes with a backslash.
MetaChars == {BackSlash, ".", "+", "*", "?", "(", ")", "|", "[", "]", "{", "}",
              "^", "$", "#", "&", "-", "~"}

\* A plausible slip: the title is spliced into the pattern unescaped.
RECURSIVE EscapeNone(_)
EscapeNone(s) ==
    IF s = <<>> THEN <<>> ELSE <<Head(s)>> \o EscapeNone(Tail(s))

\* regex::escape(title)
RECURSIVE Escape(_)
Escape(s) ==
    IF s = <<>> THEN <<>>
    ELSE (IF Head(s) \in MetaChars THEN <<BackSlash, Head(s)>> ELSE <<Head(s)>>)
         \o Escape(Tail(s))

\* The atoms the regex parser makes of the title part of the pattern text:
\* a backslash followed by a character is that character taken literally, an
\* unescaped '.' is the any-character class (every character but a newline),
\* any other character is a literal.
RECURSIVE ParseAtoms(_)
ParseAtoms(p) ==
    IF p = <<>> THEN <<>>
    ELSE IF Head(p) = BackSlash /\ Len(p) >= 2
         THEN <<[kind |-> "lit", ch |-> p[2]]>> \o ParseAtoms(Tail(Tail(p)))
    ELSE IF Head(p) = "."
         THEN <<[kind |-> "any", ch |-> "."]>> \o ParseAtoms(Tail(p))
    ELSE <<[kind |-> "lit", ch |-> Head(p)]>> \o ParseAtoms(Tail(p))

\* One atom against one character, under case_insensitive(true).
AtomMatches(a, c) ==
    IF a.kind = "any" THEN c # NewLine ELSE Fold(a.ch) = Fold(c)

\* The class \d of the regex crate: Unicode decimal digits.
IsDigitClass(c) == c \in AsciiDigits \cup {ArabicThree}

\* (jpg|jpeg|png)
Extensions == { <<"j", "p", "g">>, <<"j", "p", "e", "g">>, <<"p", "n", "g">> }

SubStr(s, from, to) == [i \in 1..(to - from + 1) |-> s[from + i - 1]]

\* Option<Captures>: the digit group when the rule matches.
NoMatch == [matched |-> FALSE, group |-> <<>>]

SomeCaps(g) == [matched |-> TRUE, group |-> g]

\* The ends j of the digit group for which
\* ^<title atoms>-(\d+)\.(jpg|jpeg|png)$ matches the whole of fname.
DigitEnds(atoms, fname) ==
    LET k == Len(atoms)
        n == Len(fname)
    IN  { j \in (k + 2)..(n - 1) :
            /\ \A i \in 1..k : AtomMatches(atoms[i], fname[i])
            /\ fname[k + 1] = "-"
            /\ \A i \in (k + 2)..j : IsDigitClass(fname[i])
            /\ fname[j + 1] = "."
            /\ \E e \in Extensions :
                  /\ n - (j + 1) = Len(e)
                  /\ \A i \in 1..Len(e) : Fold(fname[j + 1 + i]) = Fold(e[i]) }

\* name_rx.captures(&fname): Some(caps) with caps[1] the digit group when
\* the rule matches, None otherwise.
Captures(t, fname) ==
    LET atoms == ParseAtoms(Escape(t))
        ends  == DigitEnds(atoms, fname)
    IN  IF ends = {} THEN NoMatch
        ELSE SomeCaps(SubStr(fname, Len(atoms) + 2, CHOOSE j \in ends : TRUE))

\* ------------------------------------------------------------------------
\* Integer parsing (main.rs 40)
\* ------------------------------------------------------------------------

\* u32::MAX, 4294967295, in decimal digits (the value exceeds the integers of
\* the model checker, so that the range test is made on the digits).
U32MaxDigits == <<"4", "2", "9", "4", "9", "6", "7", "2", "9", "5">>

\* Result<u32, ParseIntError>
ParseErr == [ok |-> FALSE, val |-> 0]

Parsed(v) == [ok |-> TRUE, val |-> v]

DigitValue(c) ==
    CASE c = "0" -> 0 [] c = "1" -> 1 [] c = "2" -> 2 [] c = "3" -> 3
      [] c = "4" -> 4 [] c = "5" -> 5 [] c = "6" -> 6 [] c = "7" -> 7
      [] c = "8" -> 8 [] c = "9" -> 9

RECURSIVE StripZeros(_)
StripZeros(s) ==
    IF s # <<>> /\ Head(s) = "0" THEN StripZeros(Tail(s)) ELSE s

\* a > b for two digit strings of the same length
RECURSIVE DigitsGreater(_, _)
DigitsGreater(a, b) ==
    IF a = <<>> THEN FALSE
    ELSE IF DigitValue(Head(a)) # DigitValue(Head(b))
         THEN DigitValue(Head(a)) > DigitValue(Head(b))
         ELSE DigitsGreater(Tail(a), Tail(b))

\* The value of a digit string exceeds u32::MAX.
ExceedsU32(s) ==
    LET t == StripZeros(s)
    IN  \/ Len(t) > Len(U32MaxDigits)
        \/ Len(t) = Len(U32MaxDigits) /\ DigitsGreater(t, U32MaxDigits)

RECURSIVE DecimalValue(_, _)
DecimalValue(s, acc) ==
    IF s = <<>> THEN acc ELSE DecimalValue(Tail(s), acc * 10 + DigitValue(Head(s)))

\* The value of a digit string modulo 2^32, kept as two 16-bit halves.
RECURSIVE WrappedHalves(_, _)
WrappedHalves(s, acc) ==
    IF s = <<>> THEN acc
    ELSE LET lo == acc[2] * 10 + DigitValue(Head(s))
             hi == acc[1] * 10 + (lo \div 65536)
         IN  WrappedHalves(Tail(s), <<hi % 65536, lo % 65536>>)

\* A plausible slip: the digits converted with wrapping arithmetic.
ParseU32Wrapping(s) ==
    IF s = <<>> \/ \E i \in 1..Len(s) : s[i] \notin AsciiDigits
    THEN ParseErr
    ELSE LET h == WrappedHalves(s, <<0, 0>>) IN Parsed(h[1] * 65536 + h[2])

\* str::parse::<u32>(): ASCII digits only, an error on overflow.
ParseU32(s) ==
    IF s = <<>> \/ \E i \in 1..Len(s) : s[i] \notin AsciiDigits
    THEN ParseErr
    ELSE IF ExceedsU32(s) THEN ParseErr ELSE Parsed(DecimalValue(s, 0))

\* ------------------------------------------------------------------------
\* Inputs of a run
\* ------------------------------------------------------------------------

\* Largest number of items the directory listing yields.
MaxFiles == 3

\* folder.file_name().and_then(to_str) yields a name or nothing.
NoName == <<>>

TitleT == <<"T">>

FolderNames == {TitleT, NoName}

File(name) == [kind |-> "file", name |-> name]

Dir(name) == [kind |-> "dir", name |-> name]

\* An item for which the WalkDir iterator returns Err.
WalkErr == [kind |-> "err", name |-> <<>>]

\* What the directory of title T may hold.
Pool ==
    { File(<<"T", "-", "1", ".", "p", "n", "g">>),
      File(<<"T", "-", "0", "1", ".", "j", "p", "g">>),
      File(<<"t", "-", "0", "2", ".", "J", "P", "G">>),
      File(<<"T", "-", "3", ".", "j", "p", "e", "g">>),
      File(<<"T", "-", "0", ".", "p", "n", "g">>),
      File(<<"T", "-", "4", "2", "9", "4", "9", "6", "7", "2", "9", "8", ".", "p", "n", "g">>),
      File(<<"T", "-", ArabicThree, ".", "p", "n", "g">>),
      File(<<"r", "e", "a", "d", "m", "e", ".", "t", "x", "t">>),
      Dir(<<"T", "-", "2", ".", "p", "n", "g">>),
      WalkErr }

Injective(s) == \A i, j \in DOMAIN s : i # j => s[i] # s[j]

\* The listings: up to n distinct items, in any order.
Listings(n) ==
    UNION { { s \in [1..k -> Pool] : Injective(s) } : k \in 0..n }

\* ------------------------------------------------------------------------
\* main()
\* ------------------------------------------------------------------------

Running == -1

\* std::process::ExitCode::SUCCESS, returned when main() returns Ok(()).
ExitSuccess == 0

\* std::process::ExitCode::FAILURE, returned when main() returns Err.
ExitFailure == 1

\* std::process::exit(1) on missing page numbers.
ExitMissing == 1

Init ==
    /\ pc = "start"
    /\ folder_name \in FolderNames
    /\ listing \in Listings(MaxFiles)
    /\ title = NoName
    /\ idx = 0
    /\ page_entries = <<>>
    /\ noise = <<>>
    /\ missing = <<>>
    /\ stderr = <<>>
    /\ stdout = <<>>
    /\ created = FALSE
    /\ archive = <<>>
    /\ finished = FALSE
    /\ err = "none"
    /\ exit_code = Running
    /\ rx_title = <<>>
    /\ rx_fname = <<>>
    /\ rx_caps = NoMatch

\* A plausible slip: the error is reported but the status left at success.
FailWithSuccessStatus(e) ==
    /\ err' = e
    /\ exit_code' = ExitSuccess
    /\ pc' = "done"

\* main() returns Err(e): the runtime reports it and exits with FAILURE.
Fail(e) ==
    /\ err' = e
    /\ exit_code' = ExitFailure
    /\ pc' = "done"

\* Lines 17-28: the title from the folder name, the naming rule from the title.
DeriveTitle ==
    /\ pc = "start"
    /\ IF folder_name = NoName
       THEN /\ Fail("NoTitle")
            /\ UNCHANGED title
       ELSE /\ title' = folder_name
            /\ pc' = "walk"
            /\ UNCHANGED <<err, exit_code>>
    /\ UNCHANGED <<folder_name, listing, idx, page_entries, noise, missing,
                   stderr, stdout, created, archive, finished, rxVars>>

\* Line 34: the listing step returned an error, which `?` propagates.
WalkError ==
    /\ pc = "walk"
    /\ idx < Len(listing)
    /\ listing[idx + 1].kind = "err"
    /\ Fail("WalkError")
    /\ idx' = idx + 1
    /\ UNCHANGED <<folder_name, listing, title, page_entries, noise, missing,
                   stderr, stdout, created, archive, finished, rxVars>>

\* Lines 35-37: an item that is not a regular file is skipped.
WalkSkip ==
    /\ pc = "walk"
    /\ idx < Len(listing)
    /\ listing[idx + 1].kind = "dir"
    /\ idx' = idx + 1
    /\ UNCHANGED <<pc, folder_name, listing, title, page_entries, noise, missing,
                   stderr, stdout, created, archive, finished, err, exit_code,
                   rxVars>>

\* A plausible slip: a digit group that does not parse is propagated as an
\* error instead of being recorded as noise.
WalkClassifyStrict ==
    /\ pc = "walk"
    /\ idx < Len(listing)
    /\ listing[idx + 1].kind = "file"
    /\ LET fname == listing[idx + 1].name
           caps  == Captures(title, fname)
       IN  IF caps.matched /\ ParseU32(caps.group).ok
           THEN /\ page_entries' = Append(page_entries,
                                          [n |-> ParseU32(caps.group).val, path |-> fname])
                /\ UNCHANGED <<noise, pc, err, exit_code>>
           ELSE IF caps.matched
           THEN /\ Fail("ParseFailed")
                /\ UNCHANGED <<noise, page_entries>>
           ELSE /\ noise' = Append(noise, fname)
                /\ UNCHANGED <<page_entries, pc, err, exit_code>>
    /\ idx' = idx + 1
    /\ UNCHANGED <<folder_name, listing, title, missing, stderr, stdout,
                   created, archive, finished, rxVars>>

\* Lines 38-47: a regular file becomes a page entry or noise.
WalkClassify ==
    /\ pc = "walk"
    /\ idx < Len(listing)
    /\ listing[idx + 1].kind = "file"
    /\ LET fname == listing[idx + 1].name
           caps  == Captures(title, fname)
       IN  IF caps.matched /\ ParseU32(caps.group).ok
           THEN /\ page_entries' = Append(page_entries,
                                          [n |-> ParseU32(caps.group).val, path |-> fname])
                /\ UNCHANGED noise
           ELSE /\ noise' = Append(noise, fname)
                /\ UNCHANGED page_entries
    /\ idx' = idx + 1
    /\ UNCHANGED <<pc, folder_name, listing, title, missing, stderr, stdout,
                   created, archive, finished, err, exit_code, rxVars>>

\* A plausible slip: only the first ignored name is listed.
WarningLinesFirstOnly(ns) ==
    <<[kind |-> "warning", text |-> <<>>], [kind |-> "ignored", text |-> ns[1]]>>

\* The warning header and one line for each ignored name.
WarningLines(ns) ==
    <<[kind |-> "warning", text |-> <<>>]>>
    \o [i \in 1..Len(ns) |-> [kind |-> "ignored", text |-> ns[i]]]

\* Lines 48-55: the loop is over; the ignored names go to the diagnostic channel.
ReportNoise ==
    /\ pc = "walk"
    /\ idx = Len(listing)
    /\ stderr' = IF noise # <<>> THEN stderr \o WarningLines(noise) ELSE stderr
    /\ pc' = "check_empty"
    /\ UNCHANGED <<folder_name, listing, title, idx, page_entries, noise, missing,
                   stdout, created, archive, finished, err, exit_code, rxVars>>

\* A plausible slip: an empty match set goes on to the archive step.
CheckEmptyLenient ==
    /\ pc = "check_empty"
    /\ pc' = IF page_entries = <<>> THEN "create" ELSE "validate"
    /\ UNCHANGED <<folder_name, listing, title, idx, page_entries, noise, missing,
                   stderr, stdout, created, archive, finished, err, exit_code,
                   rxVars>>

\* Lines 57-59: no page entry at all is an error.
CheckEmpty ==
    /\ pc = "check_empty"
    /\ IF page_entries = <<>>
       THEN Fail("NoMatchingFiles")
       ELSE /\ pc' = "validate"
            /\ UNCHANGED <<err, exit_code>>
    /\ UNCHANGED <<folder_name, listing, title, idx, page_entries, noise, missing,
                   stderr, stdout, created, archive, finished, rxVars>>

\* A plausible slip: the entries are left in discovery order.
SortedByKeyNotSorted(s) == {s}

\* A plausible slip: of the entries with one page number only the first
\* discovered is kept.
SortedByKeyDedup(s) ==
    LET keep == { i \in 1..Len(s) : \A j \in 1..(i - 1) : s[j].n # s[i].n }
        m    == Cardinality(keep)
    IN  { [i \in 1..m |-> s[f[i]]] :
            f \in { g \in [1..m -> keep] :
                      /\ \A i, j \in 1..m : i # j => g[i] # g[j]
                      /\ \A i \in 1..(m - 1) : s[g[i]].n <= s[g[i + 1]].n } }

\* The permutations of a sequence that are ascending by page number:
\* sort_unstable_by_key may put equal keys in any order.
SortedByKey(s) ==
    { [i \in 1..Len(s) |-> s[f[i]]] :
        f \in { g \in [1..Len(s) -> 1..Len(s)] :
                  /\ \A i, j \in 1..Len(s) : i # j => g[i] # g[j]
                  /\ \A i \in 1..(Len(s) - 1) : s[g[i]].n <= s[g[i + 1]].n } }

\* A plausible slip: the range tested starts one above its first number.
RECURSIVE MissingFromSkipFirst(_, _, _)
MissingFromSkipFirst(i, max_page, num_set) ==
    IF i + 1 > max_page THEN <<>>
    ELSE (IF (i + 1) \in num_set THEN <<>> ELSE <<i + 1>>)
         \o MissingFromSkipFirst(i + 1, max_page, num_set)

\* (1..=max_page).filter(|i| !num_set.contains(i)), ascending
RECURSIVE MissingFrom(_, _, _)
MissingFrom(i, max_page, num_set) ==
    IF i > max_page THEN <<>>
    ELSE (IF i \in num_set THEN <<>> ELSE <<i>>) \o MissingFrom(i + 1, max_page, num_set)

\* Lines 61-70: sort, look for gaps in 1..max, exit(1) on a gap.
Validate ==
    /\ pc = "validate"
    /\ \E sorted \in SortedByKey(page_entries) :
         LET nums     == [i \in 1..Len(sorted) |-> sorted[i].n]
             max_page == nums[Len(nums)]
             num_set  == { nums[i] : i \in 1..Len(nums) }
             miss     == MissingFrom(1, max_page, num_set)
         IN  /\ page_entries' = sorted
             /\ missing' = miss
             /\ IF miss # <<>>
                THEN /\ stderr' = Append(stderr, [kind |-> "missing", text |-> miss])
                     /\ exit_code' = ExitMissing
                     /\ pc' = "done"
                ELSE /\ pc' = "create"
                     /\ UNCHANGED <<stderr, exit_code>>
    /\ UNCHANGED <<folder_name, listing, title, idx, noise, stdout, created,
                   archive, finished, err, rxVars>>

\* Lines 72-79: the output file is created, or the run fails.
CreateOutput ==
    /\ pc = "create"
    /\ \E ok \in BOOLEAN :
         IF ok
         THEN /\ created' = TRUE
              /\ pc' = "archive"
              /\ UNCHANGED <<err, exit_code>>
         ELSE /\ Fail("CreateFailed")
              /\ UNCHANGED created
    /\ UNCHANGED <<folder_name, listing, title, idx, page_entries, noise, missing,
                   stderr, stdout, archive, finished, rxVars>>

\* What one turn of the archive loop can come to.
EntryOutcomes == {"ok", "OpenFailed", "ReadFailed", "ZipWriteFailed"}

\* Lines 81-88: the next page entry is read and written to the archive under
\* its file name, or the run fails.
ArchiveEntry ==
    /\ pc = "archive"
    /\ Len(archive) < Len(page_entries)
    /\ \E outcome \in EntryOutcomes :
         IF outcome = "ok"
         THEN /\ archive' = Append(archive, page_entries[Len(archive) + 1])
              /\ UNCHANGED <<pc, err, exit_code>>
         ELSE /\ Fail(outcome)
              /\ UNCHANGED archive
    /\ UNCHANGED <<folder_name, listing, title, idx, page_entries, noise, missing,
                   stderr, stdout, created, finished, rxVars>>

\* Lines 90-92: the archive is finalized and the success line printed.
Finish ==
    /\ pc = "archive"
    /\ Len(archive) = Len(page_entries)
    /\ \E ok \in BOOLEAN :
         IF ok
         THEN /\ finished' = TRUE
              /\ stdout' = Append(stdout, [kind |-> "success", text |-> <<>>])
              /\ exit_code' = ExitSuccess
              /\ pc' = "done"
              /\ UNCHANGED err
         ELSE /\ Fail("FinishFailed")
              /\ UNCHANGED <<finished, stdout>>
    /\ UNCHANGED <<folder_name, listing, title, idx, page_entries, noise, missing,
                   stderr, created, archive, rxVars>>

Next ==
    \/ DeriveTitle
    \/ WalkError
    \/ WalkSkip
    \/ WalkClassify
    \/ ReportNoise
    \/ CheckEmpty
    \/ Validate
    \/ CreateOutput
    \/ ArchiveEntry
    \/ Finish

Spec == Init /\ [][Next]_vars

\* ------------------------------------------------------------------------
\* The naming rule on its own: a title and a filename are drawn, the rule is
\* built from the title (lines 25-28) and applied to the filename (line 39).
\* ------------------------------------------------------------------------

RuleTitles ==
    { <<"v", "o", "l", ".", "1">>,
      <<"C", "o", "m", "i", "c">>,
      <<"a", "-", "b">>,
      TitleT }

DotsToX(s) == [i \in 1..Len(s) |-> IF s[i] = "." THEN "X" ELSE s[i]]

RulePrefixes(t) ==
    { t, UpperStr(t), FoldStr(t), DotsToX(t), <<"x">> \o t,
      SubStr(t, 1, Len(t) - 1), <<>> }

RuleSeparators == { <<"-">>, <<>>, <<"_">> }

RuleDigitGroups ==
    { <<"1">>, <<"2">>, <<"0", "3">>, <<"1", "0">>, <<>>, <<"1", "a">>,
      <<ArabicThree>>, <<"-", "1">> }

RuleDots == { <<".">>, <<>>, <<"X">> }

RuleExtensions ==
    { <<"p", "n", "g">>, <<"P", "N", "G">>, <<"j", "p", "g">>,
      <<"J", "p", "e", "g">>, <<"j", "p", "e">>, <<"g", "i", "f">>, <<>> }

RuleSuffixes == { <<>>, <<"x">>, <<NewLine>> }

RuleNames(t) ==
    { a \o b \o c \o d \o e \o f :
        a \in RulePrefixes(t), b \in RuleSeparators, c \in RuleDigitGroups,
        d \in RuleDots, e \in RuleExtensions, f \in RuleSuffixes }

InitRule ==
    /\ pc = "rule"
    /\ rx_title \in RuleTitles
    /\ rx_fname \in RuleNames(rx_title)
    /\ rx_caps = NoMatch
    /\ folder_name = NoName
    /\ listing = <<>>
    /\ title = NoName
    /\ idx = 0
    /\ page_entries = <<>>
    /\ noise = <<>>
    /\ missing = <<>>
    /\ stderr = <<>>
    /\ stdout = <<>>
    /\ created = FALSE
    /\ archive = <<>>
    /\ finished = FALSE
    /\ err = "none"
    /\ exit_code = Running

\* Lines 25-28 and 39: name_rx.captures(&fname) for the rule of rx_title.
ApplyRule ==
    /\ pc = "rule"
    /\ rx_caps' = Captures(rx_title, rx_fname)
    /\ pc' = "rule_done"
    /\ UNCHANGED <<folder_name, listing, title, idx, page_entries, noise, missing,
                   stderr, stdout, created, archive, finished, err, exit_code,
                   rx_title, rx_fname>>

NextRule == ApplyRule

SpecRule == InitRule /\ [][NextRule]_vars

\* ------------------------------------------------------------------------
\* The directory listing as the properties speak of it
\* ------------------------------------------------------------------------

NoListingError == \A i \in 1..Len(listing) : listing[i].kind # "err"

\* The item is a regular file whose name follows the rule and whose number
\* parses: the files the properties call matched.
IsPageItem(i) ==
    /\ listing[i].kind = "file"
    /\ folder_name # NoName
    /\ LET caps == Captures(folder_name, listing[i].name)
       IN  caps.matched /\ ParseU32(caps.group).ok

PageNumberOf(i) == ParseU32(Captures(folder_name, listing[i].name).group).val

PageItems == { i \in 1..Len(listing) : IsPageItem(i) }

NoiseItems == { i \in 1..Len(listing) : listing[i].kind = "file" /\ ~IsPageItem(i) }

ListedNumbers == { PageNumberOf(i) : i \in PageItems }

MaxOf(S) == CHOOSE m \in S : \A x \in S : x <= m

ListedGaps ==
    LET nums == ListedNumbers
    IN  IF nums = {} THEN {} ELSE { k \in 1..MaxOf(nums) : k \notin nums }

IsAscending(q) == \A i \in 1..(Len(q) - 1) : q[i] < q[i + 1]

Range(q) == { q[i] : i \in 1..Len(q) }

Paths(q) == { q[i].path : i \in 1..Len(q) }

IoErrors == {"WalkError", "CreateFailed", "OpenFailed", "ReadFailed",
             "ZipWriteFailed", "FinishFailed"}

SuccessPrinted == \E i \in 1..Len(stdout) : stdout[i].kind = "success"

\* ------------------------------------------------------------------------
\* C1
\* ------------------------------------------------------------------------

\* C1: when at least one file is matched and some number of 1..max is not
\* among the matched page numbers, the output file is never created and
\* nothing is written to it; and the run, once the listing has been walked
\* without a listing error, ends by reporting exactly the missing numbers,
\* ascending, and exiting with the missing-pages status.
C1_GapNeverArchived ==
    LET gaps == ListedGaps
    IN  gaps # {} =>
        /\ pc \notin {"create", "archive"}
        /\ ~created
        /\ archive = <<>>
        /\ ~finished
        /\ ~SuccessPrinted
        /\ (pc = "done" /\ NoListingError) =>
              /\ err = "none"
              /\ exit_code = ExitMissing
              /\ Range(missing) = gaps
              /\ IsAscending(missing)
              /\ stderr # <<>>
              /\ stderr[Len(stderr)] = [kind |-> "missing", text |-> missing]

\* A run over matched pages {1, 3} plus noise has ended on the gap.
C1_Witness ==
    /\ pc = "done"
    /\ ListedNumbers = {1, 3}
    /\ missing = <<2>>
    /\ exit_code = ExitMissing
    /\ ~created

\* ------------------------------------------------------------------------
\* C2
\* ------------------------------------------------------------------------

C3_ArchiveAscending ==
    \A i \in 1..(Len(archive) - 1) : archive[i].n <= archive[i + 1].n

\* A successful run whose listing yielded page 2 (t-02.JPG) before page 1
\* (T-1.png).
C3_Witness ==
    /\ pc = "done"
    /\ finished
    /\ Len(archive) >= 2
    /\ \E i, j \in PageItems : i < j /\ PageNumberOf(i) > PageNumberOf(j)

\* ------------------------------------------------------------------------
\* C4
\* ------------------------------------------------------------------------

\* C4: when no regular file of the listing yields a page entry, the output
\* file is never created, nothing is archived and no success line is printed;
\* and the run, once the listing has been walked without a listing error, ends
\* with the no-matching-files error and the generic failure status.
C4_EmptyMatchFails ==
    (folder_name # NoName /\ PageItems = {}) =>
        /\ pc \notin {"validate", "create", "archive"}
        /\ ~created
        /\ archive = <<>>
        /\ ~finished
        /\ ~SuccessPrinted
        /\ (pc = "done" /\ NoListingError) =>
              /\ err = "NoMatchingFiles"
              /\ exit_code = ExitFailure

\* A run over a directory that holds only readme.txt and the file whose
\* number does not parse has ended.
C4_Witness ==
    /\ pc = "done"
    /\ folder_name # NoName
    /\ NoListingError
    /\ PageItems = {}
    /\ Cardinality(NoiseItems) >= 2
    /\ err = "NoMatchingFiles"

\* ------------------------------------------------------------------------
\* C5
\* ------------------------------------------------------------------------

NamesOf(items) == { listing[i].name : i \in items }

Reported(name) ==
    \E k \in 1..Len(stderr) : stderr[k] = [kind |-> "ignored", text |-> name]

\* C5: a run over a listing that holds matched files covering 1..max and
\* files that are not matched, in which no I/O step fails, ends in success:
\* status 0, the archive finalized, the success line printed, one archive entry
\* for each matched file, none for the others, and each of the others named
\* on the diagnostic channel.
C5_NoiseNonFatal ==
    ( /\ pc = "done"
      /\ folder_name # NoName
      /\ NoListingError
      /\ PageItems # {}
      /\ NoiseItems # {}
      /\ ListedGaps = {}
      /\ err \notin IoErrors ) =>
        /\ err = "none"
        /\ exit_code = ExitSuccess
        /\ finished
        /\ SuccessPrinted
        /\ Len(archive) = Cardinality(PageItems)
        /\ Paths(archive) = NamesOf(PageItems)
        /\ \A i \in NoiseItems :
              /\ listing[i].name \notin Paths(archive)
              /\ Reported(listing[i].name)

\* A successful run over two matched files and one file that is not.
C5_Witness ==
    /\ pc = "done"
    /\ finished
    /\ Cardinality(PageItems) = 2
    /\ Cardinality(NoiseItems) = 1
    /\ exit_code = ExitSuccess

\* ------------------------------------------------------------------------
\* C6
\* ------------------------------------------------------------------------

\* The shape of an accepted name, with d digits and an extension of e
\* characters: title, '-', digits, '.', extension, and nothing else. A digit
\* is a decimal digit, ASCII or not.
HasShape(t, f, d, e) ==
    /\ Len(f) = Len(t) + 1 + d + 1 + e
    /\ FoldStr(SubStr(f, 1, Len(t))) = FoldStr(t)
    /\ f[Len(t) + 1] = "-"
    /\ \A i \in 1..d : f[Len(t) + 1 + i] \in AsciiDigits \cup {ArabicThree}
    /\ f[Len(t) + d + 2] = "."
    /\ FoldStr(SubStr(f, Len(t) + d + 3, Len(f))) \in
          { <<"j", "p", "g">>, <<"j", "p", "e", "g">>, <<"p", "n", "g">> }

\* C6: the rule accepts a filename if and only if the whole filename is the
\* title taken literally, a '-', one or more digits, a '.', and jpg, jpeg or
\* png, letters compared without regard to case; and the group it captures is
\* the digits.
C6_NamingRule ==
    pc = "rule_done" =>
        /\ rx_caps.matched <=>
              \E d \in 1..Len(rx_fname), e \in {3, 4} : HasShape(rx_title, rx_fname, d, e)
        /\ rx_caps.matched =>
              \E e \in {3, 4} :
                 /\ HasShape(rx_title, rx_fname, Len(rx_caps.group), e)
                 /\ rx_caps.group =
                       SubStr(rx_fname, Len(rx_title) + 2,
                              Len(rx_title) + 1 + Len(rx_caps.group))

\* For the title vol.1 the rule has accepted VOL.1-03.Jpeg.
C6_Witness ==
    /\ pc = "rule_done"
    /\ rx_title = <<"v", "o", "l", ".", "1">>
    /\ rx_fname = <<"V", "O", "L", ".", "1", "-", "0", "3", ".", "J", "p", "e", "g">>
    /\ rx_caps = SomeCaps(<<"0", "3">>)

\* ------------------------------------------------------------------------
\* C7
\* ------------------------------------------------------------------------

\* C7 as stated: from the classification pass control goes nowhere but on
\* with the pass or to the empty-match check.
C7_Original ==
    [][pc = "walk" => pc' \in {"walk", "check_empty"}]_vars

\* Every regular file of the listing is a page entry or noise, not both.
ClassifiedAll ==
    /\ idx = Len(listing)
    /\ NoListingError
    /\ Paths(page_entries) = NamesOf(PageItems)
    /\ Range(noise) = NamesOf(NoiseItems)
    /\ Len(page_entries) + Len(noise) = Cardinality(PageItems) + Cardinality(NoiseItems)

\* C7 amended: the classification pass ends the run only when the listing
\* step returns an error, and then with the generic failure status and
\* nothing written; no file name or number makes it fail. When the listing
\* step returns no error, control reaches the empty-match check with every
\* regular file classified as a page entry or as noise.
C7_PassAbortsOnlyOnListingError ==
    /\ pc \in {"check_empty", "validate", "create", "archive"} => ClassifiedAll
    /\ pc = "done" =>
          \/ err = "NoTitle"
          \/ /\ err = "WalkError"
             /\ idx >= 1
             /\ listing[idx].kind = "err"
             /\ exit_code = ExitFailure
             /\ ~created
             /\ archive = <<>>
          \/ err # "WalkError" /\ ClassifiedAll

\* The listing step has returned an error after two files were classified.
C7_Witness ==
    /\ pc = "done"
    /\ err = "WalkError"
    /\ Len(page_entries) = 1
    /\ Len(noise) = 1

\* ------------------------------------------------------------------------
\* C8
\* ------------------------------------------------------------------------

\* The name follows the rule with ASCII digits of a value above u32::MAX.
IsOverflowItem(i) ==
    /\ listing[i].kind = "file"
    /\ folder_name # NoName
    /\ LET caps == Captures(folder_name, listing[i].name)
       IN  /\ caps.matched
           /\ \A k \in 1..Len(caps.group) : caps.group[k] \in AsciiDigits
           /\ ExceedsU32(caps.group)

KnownErrors == IoErrors \cup {"none", "NoTitle", "NoMatchingFiles"}

\* C8: a file that follows the rule with a number above 4294967295 is
\* recorded as noise once the pass has seen it; it is never a page entry nor
\* an archive entry, under any number; it raises no error; and every page
\* entry carries the exact decimal value of the digits of its own file.
C8_OverflowIsNoise ==
    /\ err \in KnownErrors
    /\ \A i \in 1..Len(listing) :
          IsOverflowItem(i) =>
             /\ listing[i].name \notin Paths(page_entries)
             /\ listing[i].name \notin Paths(archive)
             /\ (i <= idx) => listing[i].name \in Range(noise)
    /\ \A k \in 1..Len(page_entries) :
          \E i \in 1..Len(listing) :
             /\ listing[i].kind = "file"
             /\ ~IsOverflowItem(i)
             /\ listing[i].name = page_entries[k].path
             /\ page_entries[k].n =
                   DecimalValue(Captures(folder_name, listing[i].name).group, 0)

\* Pages 1 and 3 and the file numbered 4294967298 (2 modulo 2^32): the run
\* has ended on the missing page 2.
C8_Witness ==
    /\ pc = "done"
    /\ \E i \in 1..Len(listing) : IsOverflowItem(i)
    /\ missing = <<2>>
    /\ Len(noise) = 1
    /\ Len(page_entries) = 2

\* ------------------------------------------------------------------------
\* C9
\* ------------------------------------------------------------------------

DiscoveryIndex(path) ==
    CHOOSE i \in 1..Len(listing) : listing[i].kind = "file" /\ listing[i].name = path

\* C9 as stated: in the archive of a successful run, entries of one page
\* number are in the order in which the listing yielded them.
C9_Original ==
    (pc = "done" /\ finished) =>
        \A a, b \in 1..Len(archive) :
            (a < b /\ archive[a].n = archive[b].n) =>
                DiscoveryIndex(archive[a].path) < DiscoveryIndex(archive[b].path)

\* C9 amended: in the archive of a successful run every matched file is an
\* entry of its own, files of one page number included, and the entries of
\* one page number are adjacent; their relative order is not determined.
C9_DuplicatesKept ==
    (pc = "done" /\ finished) =>
        /\ Len(archive) = Cardinality(PageItems)
        /\ Paths(archive) = NamesOf(PageItems)
        /\ \A a, b, c \in 1..Len(archive) :
              (a < c /\ c < b /\ archive[a].n = archive[b].n) =>
                  archive[c].n = archive[a].n

\* A successful run whose archive holds two entries of page 1 in the order
\* opposite to their discovery.
C9_Witness ==
    /\ pc = "done"
    /\ finished
    /\ \E a, b \in 1..Len(archive) :
          /\ a < b
          /\ archive[a].n = archive[b].n
          /\ DiscoveryIndex(archive[a].path) > DiscoveryIndex(archive[b].path)

\* ------------------------------------------------------------------------
\* C10
\* ------------------------------------------------------------------------

EntryNumbers == { page_entries[i].n : i \in 1..Len(page_entries) }

AtAssembly == pc \in {"create", "archive"} \/ created

\* C10 as stated: at archive assembly the page numbers of the entries are
\* exactly 1..max.
C10_Original ==
    AtAssembly => EntryNumbers = 1..MaxOf(EntryNumbers)

\* C10 amended: at archive assembly every number of 1..max is the page number
\* of an entry and every page number lies in 0..max: page 0 is archived when
\* a file carries it.
C10_CoversOneToMax ==
    AtAssembly =>
        /\ EntryNumbers # {}
        /\ \A k \in 1..MaxOf(EntryNumbers) : k \in EntryNumbers
        /\ \A n \in EntryNumbers : n \in 0..MaxOf(EntryNumbers)

\* The output file has been created for the pages 0, 1 and 2.
C10_Witness ==
    /\ created
    /\ EntryNumbers = {0, 1, 2}

====
